---- MODULE Spec2Model ----
(***************************************************************************)
(* LocalStorage, the local-filesystem storage adapter of the attachments   *)
(* feature (apps/nestjs-backend/src/features/attachments/plugins/local.ts).*)
(*                                                                         *)
(* Time is Math.floor(Date.now() / 1000), epoch seconds.  The TTL cache    *)
(* (CacheService) and the token codec (Encryptor) are collaborators whose  *)
(* code is not part of the plugin; they are modelled at their interface.   *)
(*                                                                         *)
(* SpecToken is the upload-token protocol (presigned, validateToken, the   *)
(* clock, cache eviction); SpecUpload the file operations and the write    *)
(* streams behind them; SpecRead the read tokens of preview URLs; SpecMeta *)
(* getObjectMeta and the read tokens it issues; SpecPaths the paths of two *)
(* uploads in flight together.  Spec is all of them.                       *)
(***************************************************************************)
EXTENDS Integers, Sequences, FiniteSets, TLC

(* ------------------------------ bounds --------------------------------- *)
\* last second the clock reaches
MaxTime == 4
\* largest expiresIn a presign request carries
MaxExpiresIn == 2
\* largest size (bytes) of an uploaded file and largest declared contentLength
MaxSize == 2
\* writableHighWaterMark of an fs.WriteStream, in bytes (16384 in Node, scaled
\* down with the sizes): write() returns false once this much is queued
highWaterMark == 1

(* ------------------------- configuration values ------------------------ *)
\* second(this.config.tokenExpireIn): default lifetime of an upload token
tokenExpireIn == 2
\* second(this.config.urlExpireIn): default lifetime of a preview URL
urlExpireIn == 2

(* ------------------------------ values --------------------------------- *)
\* JavaScript undefined, for string-valued fields
undefined == "undefined"
\* an optional number: {} is undefined, {n} is the number n
NoNumber == {}
Num(n) == {n}
\* JavaScript truthiness of an optional number: undefined and 0 are falsy
TruthyNumber(x) == x # NoNumber /\ x # Num(0)
\* JavaScript truthiness of an optional string: undefined and '' are falsy
TruthyString(s) == s # undefined /\ s # ""

\* values getRandomString(12) can return for upload tokens
Tokens == {"tokA"}
\* with the token of a second upload in flight at the same time
TokenPool == Tokens \cup {"tokB"}
\* the dir argument of presigned
Dirs == {"d1", "d2"}
\* IPresignParams.hash: undefined, or any string the client declares, which
\* may be the token of another upload
Hashes == {undefined, "h1", "tokA"}
\* content types a presign request or an upload request declares
ContentTypes == {"image/png", "text/plain"}
\* what a presign request declares (IPresignParams.contentType)
PresignContentTypes == {undefined, "image/png"}
\* req.headers['content-type'] of an upload request
OptContentType == ContentTypes \cup {undefined}
OptLength == {NoNumber} \cup {Num(n) : n \in 0..MaxSize}
OptExpiresIn == {NoNumber} \cup {Num(n) : n \in 1..MaxExpiresIn}
OptPreviewExpiresIn == {NoNumber} \cup {Num(n) : n \in 0..MaxExpiresIn}

\* values getRandomString(12) can return for temporary file names
TmpNames == {"tmp1"}
\* with the temporary file name of a second upload
NamePool == TmpNames \cup {"tmp2"}
\* the byte values of uploaded content; a stream delivers one byte per chunk
Bytes == {"x", "y"}
Contents == UNION {[1..n -> Bytes] : n \in 0..MaxSize}
Buckets == {"bucket"}
ObjectPaths == {"dir/obj"}

\* absolute paths are <<root, first segment, second segment>>
\* resolve(this.temporaryDir, name)
TempPath(name) == <<"temporaryDir", "", name>>
\* join(bucket, path)
join(bucket, path) == <<bucket, path>>
\* resolve(this.storageDir, rename), rename = join(bucket, path)
StoragePath(rename) == <<"storageDir", rename[1], rename[2]>>
\* a relative path given to an fs call resolves against process.cwd()
CwdPath(path) == <<"cwd", "", path>>
TempPaths == {TempPath(n) : n \in TmpNames}
StoragePaths == {StoragePath(join(b, p)) : b \in Buckets, p \in ObjectPaths}
AllPaths ==
    {TempPath(n) : n \in NamePool} \cup StoragePaths \cup {CwdPath(p) : p \in ObjectPaths}

\* IRespHeaders values a caller passes to getPreviewUrl; absent fields are undefined
RespHeaders ==
    {[given |-> FALSE, contentType |-> undefined, contentDisposition |-> undefined],
     [given |-> TRUE, contentType |-> "image/png", contentDisposition |-> undefined],
     [given |-> TRUE, contentType |-> undefined, contentDisposition |-> "attachment"]}
NoPayload == [expiresDate |-> 0,
              respHeaders |-> [given |-> FALSE, contentType |-> undefined,
                               contentDisposition |-> undefined]]
\* what distinguishes two encryptions of one payload (encryption may be
\* non-deterministic)
Nonces == {"n1", "n2"}
NoToken == [valid |-> FALSE, payload |-> NoPayload, nonce |-> ""]
NoUrl == [pathname |-> <<"", "", "">>, token |-> NoToken, disposition |-> undefined]

NoFile == [exists |-> FALSE, bytes |-> <<>>]
NoHash == <<"none", <<>>>>
NoWriter == [state |-> "none", buf |-> <<>>, ended |-> FALSE, needDrain |-> FALSE,
             onError |-> FALSE]
NoCall ==
    [op |-> "none", pc |-> "idle", filePath |-> TempPath(""), rename |-> join("", ""),
     path |-> "", src |-> <<>>, size |-> 0, mimetype |-> undefined,
     hash |-> NoHash, res |-> "none"]

\* results of validateToken: resolved, or the BadRequestException thrown
\*   "InvalidToken"  = 'Invalid token'
\*   "TokenExpired"  = 'Token has expired'
\*   "SizeMismatch"  = 'Size mismatch'
\*   "TypeMismatch"  = 'Not allow upload <mimetype> file'
ValidateResults == {"ok", "InvalidToken", "TokenExpired", "SizeMismatch", "TypeMismatch"}

VARIABLES
    now,      \* Math.floor(Date.now() / 1000)
    cache,    \* cacheService, keys attachment:local-signature:<token>
    issued,   \* tokens that presigned has returned
    presigns, \* per token, the dir and hash presigned was given and the path it returned
    vcall,    \* the last validateToken call: its arguments and outcome
    okCount,  \* per token, the successful validateToken calls (counted to 2)
    failed,   \* tokens for which a validateToken call has failed since presigned
              \* returned them
    dead,     \* per token, the validateToken calls (counted to 2) made from the
              \* first one that failed on expiry: with TokenExpired, or with
              \* InvalidToken after presigned had returned the token
    validatedPaths, \* temporary files a successful validateToken call was given
    fs,       \* the filesystem: temporaryDir, storageDir and the working directory
    writer,   \* per temporary file name, the fs.WriteStream created on it
    call,     \* the file operation in flight (or the last one, once settled)
    returned, \* the ILocalFileUpload records saveTemporaryFile has resolved with
    copied,   \* per storage path: was the last copy there made from a validated file
    url,      \* the URL getPreviewUrl returned last
    rcall,    \* the last verifyReadToken call: its token, its time and its outcome
    gcall,    \* the last getPreviewUrl call: its arguments and its time
    ocall     \* the last getObjectMeta call: its time, what it read and its outcome

tokenVars == <<cache, issued, presigns, vcall, okCount, failed, dead, validatedPaths>>
fileVars == <<fs, writer, call, returned, copied>>
readVars == <<url, rcall, gcall, ocall>>
vars == <<now, cache, issued, presigns, vcall, okCount, failed, dead, validatedPaths,
         fs, writer, call, returned, copied, url, rcall, gcall, ocall>>

(* ------------------------------ TTL cache ------------------------------ *)
NoEntry ==
    [present |-> FALSE, ttlEnd |-> 0,
     value |-> [expiresDate |-> 0, contentLength |-> NoNumber, contentType |-> undefined]]

\* cacheService.set(key, value, ttl): the entry lives ttl seconds from now
CacheSet(c, key, value, ttl) ==
    [c EXCEPT ![key] = [present |-> TRUE, ttlEnd |-> now + ttl, value |-> value]]

\* cacheService.get(key): the entry, or absent
CacheGet(c, key) == c[key]

\* the cache drops an entry at some moment from the end of its TTL on
CacheEvict(token) ==
    /\ cache[token].present
    /\ now >= cache[token].ttlEnd
    /\ cache' = [cache EXCEPT ![token] = NoEntry]
    /\ UNCHANGED <<now, issued, presigns, vcall, okCount, failed, dead, validatedPaths>>
    /\ UNCHANGED fileVars
    /\ UNCHANGED readVars

(* -------------------------------- clock -------------------------------- *)
Tick ==
    /\ now < MaxTime
    /\ now' = now + 1
    /\ UNCHANGED tokenVars
    /\ UNCHANGED readVars
    /\ UNCHANGED fileVars
    /\ UNCHANGED readVars

(* ------------------------------ presigned ------------------------------ *)
\* getRandomString(12): any string of the pool not handed out before (twelve
\* random characters; presigned and the upload calls take a repeat for impossible)
getRandomString(used, pool) == pool \ used

\* variant: the file name is the declared hash, also when none is declared
filename_hashOnly(hash, token) == hash

\* line 73: const filename = hash ?? token
filename(hash, token) == IF hash # undefined THEN hash ELSE token

NoPresign == [dir |-> "", hash |-> undefined, path |-> join("", "")]

\* presigned(_bucket, dir, params): the cache entry is the only state written;
\* the returned {token, path: join(dir, hash ?? token), url, ...} goes to the
\* caller (presigns keeps it)
presigned(dir, contentType, contentLength, hash, expiresInParam) ==
    \E token \in getRandomString(issued, TokenPool) :
        LET expiresIn == IF expiresInParam # NoNumber
                         THEN CHOOSE n \in expiresInParam : TRUE
                         ELSE tokenExpireIn
        IN  /\ cache' = CacheSet(cache, token,
                                 [expiresDate |-> now + expiresIn,
                                  contentLength |-> contentLength,
                                  contentType |-> contentType],
                                 expiresIn)
            /\ issued' = issued \cup {token}
            /\ presigns' = [presigns EXCEPT ![token] =
                                [dir |-> dir, hash |-> hash,
                                 path |-> join(dir, filename(hash, token))]]
            /\ UNCHANGED <<now, vcall, okCount, failed, dead, validatedPaths>>
            /\ UNCHANGED fileVars
        /\ UNCHANGED readVars
            /\ UNCHANGED readVars
    /\ UNCHANGED readVars

(* ---------------------------- validateToken ---------------------------- *)
\* variant: the size is compared before the expiry
validateTokenResult_sizeFirst(validateMeta, time, file) ==
    IF ~validateMeta.present THEN "InvalidToken"
    ELSE IF /\ TruthyNumber(validateMeta.value.contentLength)
            /\ validateMeta.value.contentLength # Num(file.size) THEN "SizeMismatch"
    ELSE IF time > validateMeta.value.expiresDate THEN "TokenExpired"
    ELSE IF /\ TruthyString(file.mimetype)
            /\ file.mimetype # validateMeta.value.contentType THEN "TypeMismatch"
    ELSE "ok"

\* variant: the expiry is left to the cache, expiresDate is not compared
validateTokenResult_noExpiry(validateMeta, time, file) ==
    IF ~validateMeta.present THEN "InvalidToken"
    ELSE IF /\ TruthyNumber(validateMeta.value.contentLength)
            /\ validateMeta.value.contentLength # Num(file.size) THEN "SizeMismatch"
    ELSE IF /\ TruthyString(file.mimetype)
            /\ file.mimetype # validateMeta.value.contentType THEN "TypeMismatch"
    ELSE "ok"

\* variant: the expiry comparison is reversed (< for >)
validateTokenResult_reversed(validateMeta, time, file) ==
    IF ~validateMeta.present THEN "InvalidToken"
    ELSE IF time < validateMeta.value.expiresDate THEN "TokenExpired"
    ELSE IF /\ TruthyNumber(validateMeta.value.contentLength)
            /\ validateMeta.value.contentLength # Num(file.size) THEN "SizeMismatch"
    ELSE IF /\ TruthyString(file.mimetype)
            /\ file.mimetype # validateMeta.value.contentType THEN "TypeMismatch"
    ELSE "ok"

\* the outcome of validateToken given the cache entry read, the time and the file
validateTokenResult(validateMeta, time, file) ==
    IF ~validateMeta.present THEN "InvalidToken"
    ELSE IF time > validateMeta.value.expiresDate THEN "TokenExpired"
    ELSE IF /\ TruthyNumber(validateMeta.value.contentLength)
            /\ validateMeta.value.contentLength # Num(file.size) THEN "SizeMismatch"
    ELSE IF /\ TruthyString(file.mimetype)
            /\ file.mimetype # validateMeta.value.contentType THEN "TypeMismatch"
    ELSE "ok"

\* variant: a successful validation consumes the cache entry
validateToken_consume(token, file) ==
    LET res == validateTokenResult(CacheGet(cache, token), now, file)
    IN  /\ vcall' = [token |-> token, size |-> file.size, mimetype |-> file.mimetype,
                     res |-> res, flip |-> 1 - vcall.flip]
        /\ okCount' = IF res = "ok" /\ okCount[token] < 2
                      THEN [okCount EXCEPT ![token] = @ + 1] ELSE okCount
        /\ failed' = IF res # "ok" /\ token \in issued THEN failed \cup {token} ELSE failed
        /\ dead' = IF \/ dead[token] = 1
                      \/ dead[token] = 0 /\ res = "TokenExpired"
                      \/ dead[token] = 0 /\ res = "InvalidToken" /\ token \in issued
                   THEN [dead EXCEPT ![token] = @ + 1] ELSE dead
        /\ validatedPaths' = IF res = "ok"
                             THEN validatedPaths \cup {file.path} ELSE validatedPaths
        /\ cache' = IF res = "ok" THEN [cache EXCEPT ![token] = NoEntry] ELSE cache
        /\ UNCHANGED <<now, issued, presigns>>
        /\ UNCHANGED fileVars
        /\ UNCHANGED readVars

validateToken(token, file) ==
    LET res == validateTokenResult(CacheGet(cache, token), now, file)
    IN  /\ vcall' = [token |-> token, size |-> file.size, mimetype |-> file.mimetype,
                     res |-> res, flip |-> 1 - vcall.flip]
        /\ okCount' = IF res = "ok" /\ okCount[token] < 2
                      THEN [okCount EXCEPT ![token] = @ + 1] ELSE okCount
        /\ failed' = IF res # "ok" /\ token \in issued THEN failed \cup {token} ELSE failed
        /\ dead' = IF \/ dead[token] = 1
                      \/ dead[token] = 0 /\ res = "TokenExpired"
                      \/ dead[token] = 0 /\ res = "InvalidToken" /\ token \in issued
                   THEN [dead EXCEPT ![token] = @ + 1] ELSE dead
        /\ validatedPaths' = IF res = "ok"
                             THEN validatedPaths \cup {file.path} ELSE validatedPaths
        /\ UNCHANGED <<now, cache, issued, presigns>>
        /\ UNCHANGED fileVars
        /\ UNCHANGED readVars
    /\ UNCHANGED readVars

\* the ILocalFileUpload values a caller may present
Files == [size : 0..MaxSize, mimetype : OptContentType, path : TempPaths]

(* ------------------------------ filesystem ----------------------------- *)
\* FileUtils.getHash(filePath): a digest of the bytes read, distinct for distinct bytes
getHash(f, filePath) == <<"sha256", f[filePath].bytes>>

\* deleteFile(filePath): unlink if it exists
deleteFile(f, filePath) ==
    IF filePath \in DOMAIN f /\ f[filePath].exists
    THEN [f EXCEPT ![filePath] = NoFile] ELSE f

\* variant: the arguments of fse.copy are swapped
copy_swapped(f, filePath, newFilePath) == [f EXCEPT ![filePath] = f[newFilePath]]

\* fse.copy(filePath, newFilePath): the destination gets the source's bytes
copy(f, filePath, newFilePath) == [f EXCEPT ![newFilePath] = f[filePath]]

\* variant: the removal leaves the file where it is
remove_keep(f, filePath) == f

\* fse.remove(filePath)
remove(f, filePath) == [f EXCEPT ![filePath] = NoFile]

\* fse.writeFile(temPath, buffer)
writeFile(f, temPath, buffer) == [f EXCEPT ![temPath] = [exists |-> TRUE, bytes |-> buffer]]

\* what fse.writeFile can leave at the path when it throws on an I/O fault:
\* no file, or a file with fewer bytes than the buffer
writeFileFault(buffer) ==
    {NoFile} \cup {[exists |-> TRUE, bytes |-> SubSeq(buffer, 1, k)] :
                       k \in 0..(Len(buffer) - 1)}

(* ---------------------------- fs.WriteStream --------------------------- *)
NameOf(filePath) == filePath[3]

\* createWriteStream(path): the stream exists at once, its file is opened later
createWriteStream(w, name) ==
    [w EXCEPT ![name] = [state |-> "opening", buf |-> <<>>, ended |-> FALSE,
                         needDrain |-> FALSE, onError |-> FALSE]]

\* fileStream.on('error', ...): the stream has a listener that deletes its file
on(w, name) == [w EXCEPT ![name].onError = TRUE]

\* writable.write(chunk): the chunk is queued, also while the file is being
\* opened; the call returns false, and 'drain' is owed, once highWaterMark
\* bytes are queued.  A destroyed stream takes nothing.
write(w, name, chunk) ==
    IF w[name].state = "errored" THEN w
    ELSE [w EXCEPT ![name].buf = Append(@, chunk),
                   ![name].needDrain = @ \/ Len(w[name].buf) + 1 >= highWaterMark]

\* writable.end() / close(): no more writes; queued chunks are still flushed
end(w, name) == [w EXCEPT ![name].ended = TRUE]

\* the stream's open completes: flag 'w' creates the file, or truncates it
WriterOpen(name) ==
    /\ writer[name].state = "opening"
    /\ writer' = [writer EXCEPT ![name].state = "open"]
    /\ fs' = [fs EXCEPT ![TempPath(name)] = [exists |-> TRUE, bytes |-> <<>>]]
    /\ UNCHANGED <<now, call, returned, copied>>
    /\ UNCHANGED tokenVars
    /\ UNCHANGED readVars

\* one queued chunk reaches the file; after an unlink the file descriptor
\* still takes the bytes but no path shows them.  'drain' is emitted when the
\* queue empties.
WriterFlush(name) ==
    /\ writer[name].state = "open"
    /\ writer[name].buf # <<>>
    /\ writer' = [writer EXCEPT ![name].buf = Tail(@),
                                ![name].needDrain = @ /\ Tail(writer[name].buf) # <<>>]
    /\ fs' = IF fs[TempPath(name)].exists
             THEN [fs EXCEPT ![TempPath(name)].bytes = Append(@, Head(writer[name].buf))]
             ELSE fs
    /\ UNCHANGED <<now, call, returned, copied>>
    /\ UNCHANGED tokenVars
    /\ UNCHANGED readVars

\* 'finish' and 'close': the stream was ended and its queue is empty
WriterFinish(name) ==
    /\ writer[name].state = "open"
    /\ writer[name].buf = <<>>
    /\ writer[name].ended
    /\ writer' = [writer EXCEPT ![name].state = "closed"]
    /\ UNCHANGED <<now, fs, call, returned, copied>>
    /\ UNCHANGED tokenVars
    /\ UNCHANGED readVars

\* fileStream.on('error'), lines 141-144: the open or a write of the stream
\* fails and the stream is destroyed, what it had queued is lost; the listener
\* runs deleteFile(path) and reject(err.message), which settles the promise
\* unless it is settled already
fileStreamError(name) ==
    /\ writer[name].onError
    /\ \/ writer[name].state = "opening"
       \/ writer[name].state = "open" /\ writer[name].buf # <<>>
    /\ writer' = [writer EXCEPT ![name].state = "errored", ![name].buf = <<>>,
                                ![name].needDrain = FALSE]
    /\ fs' = deleteFile(fs, TempPath(name))
    /\ call' = IF /\ call.op = "saveTemporaryFile" /\ call.filePath = TempPath(name)
                  /\ call.pc \in {"stream", "hung"}
               THEN [call EXCEPT !.pc = "failed", !.res = "write error"]
               ELSE call
    /\ UNCHANGED <<now, returned, copied>>
    /\ UNCHANGED tokenVars
    /\ UNCHANGED readVars

\* the positions of a call whose promise is settled
Settled == {"idle", "done", "failed"}
\* a caller starts an operation when none is at a step; a call whose request
\* closed without 'end' stays pending and takes no further step
Free == Settled \cup {"hung"}

(* --------------------------- saveTemporaryFile ------------------------- *)
\* lines 118-123 and 141: the name, the path, the write stream and its
\* 'error' listener
saveTemporaryFile(req) ==
    /\ call.pc \in Free
    /\ \E name \in getRandomString(issued, NamePool) :
        /\ issued' = issued \cup {name}
        /\ writer' = on(createWriteStream(writer, name), name)
        /\ call' = [NoCall EXCEPT !.op = "saveTemporaryFile", !.pc = "stream",
                                  !.filePath = TempPath(name), !.src = req.chunks,
                                  !.mimetype = req.contentType, !.res = "pending"]
    /\ UNCHANGED <<now, cache, presigns, vcall, okCount, failed, dead, validatedPaths>>
    /\ UNCHANGED readVars
    /\ UNCHANGED <<fs, returned, copied>>

\* req.on('data')
reqData ==
    /\ call.op = "saveTemporaryFile" /\ call.pc = "stream"
    /\ call.src # <<>>
    /\ writer' = write(writer, NameOf(call.filePath), Head(call.src))
    /\ call' = [call EXCEPT !.src = Tail(@), !.size = @ + 1]
    /\ UNCHANGED <<now, fs, returned, copied>>
    /\ UNCHANGED tokenVars
    /\ UNCHANGED readVars

\* req.on('end'): fileStream.end() and resolve({size, mimetype, path})
reqEnd ==
    /\ call.op = "saveTemporaryFile" /\ call.pc = "stream"
    /\ call.src = <<>>
    /\ writer' = end(writer, NameOf(call.filePath))
    /\ call' = [call EXCEPT !.pc = "done", !.res = "ok"]
    /\ returned' = returned \cup
                   {[size |-> call.size, mimetype |-> call.mimetype, path |-> call.filePath]}
    /\ UNCHANGED <<now, fs, copied>>
    /\ UNCHANGED tokenVars
    /\ UNCHANGED readVars

\* req.on('error'): deleteFile(path) and reject(err.message)
reqError ==
    /\ call.op = "saveTemporaryFile" /\ call.pc = "stream"
    /\ fs' = deleteFile(fs, call.filePath)
    /\ call' = [call EXCEPT !.pc = "failed", !.res = "request error"]
    /\ UNCHANGED <<now, writer, returned, copied>>
    /\ UNCHANGED tokenVars
    /\ UNCHANGED readVars

\* the request emits 'close' with neither 'end' nor 'error' (the client went
\* away and the request was destroyed without an error): saveTemporaryFile
\* registers no listener for it, what the request had left never arrives
reqClose ==
    /\ call.op = "saveTemporaryFile" /\ call.pc = "stream"
    /\ call' = [call EXCEPT !.pc = "hung", !.src = <<>>]
    /\ UNCHANGED <<now, fs, writer, returned, copied>>
    /\ UNCHANGED tokenVars
    /\ UNCHANGED readVars

(* ------------------------ save and the upload calls -------------------- *)
\* save(filePath, rename), called directly
save(filePath, rename) ==
    /\ call.pc \in Free
    /\ call' = [NoCall EXCEPT !.op = "save", !.pc = "copy", !.filePath = filePath,
                              !.rename = rename, !.res = "pending"]
    /\ UNCHANGED <<now, fs, writer, returned, copied>>
    /\ UNCHANGED tokenVars
    /\ UNCHANGED readVars

\* save, line 155: await fse.copy(filePath, newFilePath).  The copy throws when
\* the source is missing (ENOENT) and can throw on an I/O fault (EIO: no
\* space, no permission, a failing disk); save has no handler, the rejection
\* goes to the caller and line 156 is not reached
saveCopy ==
    /\ call.pc = "copy"
    /\ \/ IF fs[call.filePath].exists
          THEN /\ fs' = copy(fs, call.filePath, StoragePath(call.rename))
               /\ copied' = [copied EXCEPT ![StoragePath(call.rename)] =
                                 IF call.filePath \in validatedPaths
                                 THEN "validated" ELSE "unvalidated"]
               /\ call' = [call EXCEPT !.pc = "remove"]
          ELSE /\ call' = [call EXCEPT !.pc = "failed", !.res = "ENOENT"]
               /\ UNCHANGED <<fs, copied>>
       \/ /\ fs[call.filePath].exists
          /\ call' = [call EXCEPT !.pc = "failed", !.res = "EIO"]
          /\ UNCHANGED <<fs, copied>>
    /\ UNCHANGED <<now, writer, returned>>
    /\ UNCHANGED tokenVars
    /\ UNCHANGED readVars

\* save, lines 156-157: await fse.remove(filePath); the caller's return follows
saveRemove ==
    /\ call.pc = "remove"
    /\ fs' = remove(fs, call.filePath)
    /\ call' = [call EXCEPT !.pc = "done", !.res = "ok"]
    /\ UNCHANGED <<now, writer, returned, copied>>
    /\ UNCHANGED tokenVars
    /\ UNCHANGED readVars

\* uploadFileWidthPath(bucket, path, filePath, _metadata)
uploadFileWidthPath(bucket, path, filePath) ==
    /\ call.pc \in Free
    /\ call' = [NoCall EXCEPT !.op = "uploadFileWidthPath", !.pc = "hash",
                              !.filePath = filePath, !.rename = join(bucket, path),
                              !.path = path, !.res = "pending"]
    /\ UNCHANGED <<now, fs, writer, returned, copied>>
    /\ UNCHANGED tokenVars
    /\ UNCHANGED readVars

\* lines 237 and 272: const hash = await FileUtils.getHash(...).  Reading the
\* file throws when it is missing (ENOENT) and can throw on an I/O fault (EIO);
\* neither caller has a handler
hashStep ==
    /\ call.pc = "hash"
    /\ \/ call' = IF fs[call.filePath].exists
                  THEN [call EXCEPT !.pc = "copy", !.hash = getHash(fs, call.filePath)]
                  ELSE [call EXCEPT !.pc = "failed", !.res = "ENOENT"]
       \/ /\ fs[call.filePath].exists
          /\ call' = [call EXCEPT !.pc = "failed", !.res = "EIO"]
    /\ UNCHANGED <<now, fs, writer, returned, copied>>
    /\ UNCHANGED tokenVars
    /\ UNCHANGED readVars

\* uploadFile(bucket, path, stream): lines 251-258
\* a Buffer is written with fse.writeFile, which can throw on an I/O fault
\* (uploadFile has no handler); a stream is piped into a write stream
uploadFile(bucket, path, stream) ==
    /\ call.pc \in Free
    /\ \E name \in getRandomString(issued, NamePool) :
        /\ issued' = issued \cup {name}
        /\ IF stream.kind = "Buffer"
           THEN /\ \/ /\ fs' = writeFile(fs, TempPath(name), stream.data)
                      /\ call' = [NoCall EXCEPT !.op = "uploadFile", !.pc = "hash",
                                                !.filePath = TempPath(name),
                                                !.rename = join(bucket, path),
                                                !.path = path, !.res = "pending"]
                   \/ \E written \in writeFileFault(stream.data) :
                      /\ fs' = [fs EXCEPT ![TempPath(name)] = written]
                      /\ call' = [NoCall EXCEPT !.op = "uploadFile", !.pc = "failed",
                                                !.filePath = TempPath(name),
                                                !.rename = join(bucket, path),
                                                !.path = path, !.res = "EIO"]
                /\ UNCHANGED writer
           ELSE /\ writer' = createWriteStream(writer, name)
                /\ call' = [NoCall EXCEPT !.op = "uploadFile", !.pc = "stream",
                                          !.filePath = TempPath(name),
                                          !.rename = join(bucket, path), !.path = path,
                                          !.src = stream.data, !.res = "pending"]
                /\ UNCHANGED fs
    /\ UNCHANGED <<now, cache, presigns, vcall, okCount, failed, dead, validatedPaths>>
    /\ UNCHANGED readVars
    /\ UNCHANGED <<returned, copied>>

\* stream.pipe(writer): a chunk of the source is written to the writer; pipe
\* pauses the source when write() returns false and resumes it on 'drain'
pipeData ==
    /\ call.op = "uploadFile" /\ call.pc = "stream"
    /\ call.src # <<>>
    /\ ~writer[NameOf(call.filePath)].needDrain
    /\ writer' = write(writer, NameOf(call.filePath), Head(call.src))
    /\ call' = [call EXCEPT !.src = Tail(@)]
    /\ UNCHANGED <<now, fs, returned, copied>>
    /\ UNCHANGED tokenVars
    /\ UNCHANGED readVars

\* stream.on('end'): writer.end(); writer.close(); resolve()
streamEnd ==
    /\ call.op = "uploadFile" /\ call.pc = "stream"
    /\ call.src = <<>>
    /\ writer' = end(writer, NameOf(call.filePath))
    /\ call' = [call EXCEPT !.pc = "hash"]
    /\ UNCHANGED <<now, fs, returned, copied>>
    /\ UNCHANGED tokenVars
    /\ UNCHANGED readVars

\* stream.on('error'): writer.end(); writer.close(); this.deleteFile(path); reject(err)
streamError ==
    /\ call.op = "uploadFile" /\ call.pc = "stream"
    /\ writer' = end(writer, NameOf(call.filePath))
    /\ fs' = deleteFile(fs, CwdPath(call.path))
    /\ call' = [call EXCEPT !.pc = "failed", !.res = "stream error"]
    /\ UNCHANGED <<now, returned, copied>>
    /\ UNCHANGED tokenVars
    /\ UNCHANGED readVars

\* the stream emits 'close' with neither 'end' nor 'error' (it was destroyed
\* without an error): uploadFile registers no listener for it, the promise of
\* line 256 stays pending and the writer is never ended
streamClose ==
    /\ call.op = "uploadFile" /\ call.pc = "stream"
    /\ call' = [call EXCEPT !.pc = "hung", !.src = <<>>]
    /\ UNCHANGED <<now, fs, writer, returned, copied>>
    /\ UNCHANGED tokenVars
    /\ UNCHANGED readVars

\* the open or a write of uploadFile's writer fails: uploadFile registers no
\* 'error' listener on it (lines 257-269), nothing deletes the file and nothing
\* rejects.  pipe unpipes the stream, which stops flowing: if it still has
\* chunks to deliver, its 'end' never comes and the promise stays pending.
\* (Where the unhandled 'error' event ends the process, everything stops here.)
writerError(name) ==
    /\ ~writer[name].onError
    /\ \/ writer[name].state = "opening"
       \/ writer[name].state = "open" /\ writer[name].buf # <<>>
    /\ writer' = [writer EXCEPT ![name].state = "errored", ![name].buf = <<>>,
                                ![name].needDrain = FALSE]
    /\ call' = IF /\ call.op = "uploadFile" /\ call.filePath = TempPath(name)
                  /\ call.pc = "stream" /\ call.src # <<>>
               THEN [call EXCEPT !.pc = "hung", !.src = <<>>]
               ELSE call
    /\ UNCHANGED <<now, fs, returned, copied>>
    /\ UNCHANGED tokenVars
    /\ UNCHANGED readVars

Sources == [kind : {"Buffer", "Readable"}, data : Contents]
Requests == [chunks : Contents, contentType : OptContentType]

(* ------------------------------ read tokens ---------------------------- *)
\* Encryptor.encrypt(params): the opaque strings it can return, each of which
\* decrypts to params
encrypt(params) == {[valid |-> TRUE, payload |-> params, nonce |-> n] : n \in Nonces}

\* a string that is no output of encrypt under the configured key
tampered(token) == [token EXCEPT !.valid = FALSE]

\* getUrl(bucket, path, params): the URLs it can return, one per token
getUrl(bucket, path, params) ==
    {[pathname |-> <<"/api/attachments/read", bucket, path>>,
      token |-> token,
      disposition |-> IF TruthyString(params.respHeaders.contentDisposition)
                      THEN params.respHeaders.contentDisposition ELSE undefined] :
        token \in encrypt(params)}

\* getPreviewUrl(bucket, path, expiresIn = second(config.urlExpireIn), respHeaders)
getPreviewUrl(bucket, path, expiresInParam, respHeaders) ==
    LET expiresIn == IF expiresInParam # NoNumber
                     THEN CHOOSE n \in expiresInParam : TRUE
                     ELSE urlExpireIn
    IN  /\ url' \in getUrl(bucket, path,
                           [expiresDate |-> now + expiresIn, respHeaders |-> respHeaders])
        /\ gcall' = [bucket |-> bucket, path |-> path, expiresIn |-> expiresInParam,
                     respHeaders |-> respHeaders, at |-> now]
        /\ UNCHANGED <<now, rcall, ocall>>
        /\ UNCHANGED tokenVars
        /\ UNCHANGED fileVars

\* variant: the token is refused from the second of its expiry on (>= for >)
verifyReadTokenTry_atExpiry(token, time) ==
    IF ~token.valid THEN "DecryptError"
    ELSE IF token.payload.expiresDate > 0 /\ time >= token.payload.expiresDate
         THEN "TokenExpired"
    ELSE "ok"

\* variant: every expiresDate is compared with the time, -1 as well
verifyReadTokenTry_noNever(token, time) ==
    IF ~token.valid THEN "DecryptError"
    ELSE IF time > token.payload.expiresDate THEN "TokenExpired"
    ELSE "ok"

\* the try block of verifyReadToken: what it returns or throws
verifyReadTokenTry(token, time) ==
    IF ~token.valid THEN "DecryptError"
    ELSE IF token.payload.expiresDate > 0 /\ time > token.payload.expiresDate
         THEN "TokenExpired"
    ELSE "ok"

\* verifyReadToken: whatever the try block throws is caught and replaced by
\* BadRequestException('Invalid token')
verifyReadTokenResult(token, time) ==
    IF verifyReadTokenTry(token, time) = "ok" THEN "ok" ELSE "InvalidToken"

\* line 225: return { respHeaders }, those of the decrypted payload
verifyReadTokenReturn(token, time) ==
    IF verifyReadTokenResult(token, time) = "ok"
    THEN token.payload.respHeaders ELSE NoPayload.respHeaders

verifyReadToken(token) ==
    /\ rcall' = [token |-> token, at |-> now, res |-> verifyReadTokenResult(token, now),
                 respHeaders |-> verifyReadTokenReturn(token, now)]
    /\ UNCHANGED <<now, url, gcall, ocall>>
    /\ UNCHANGED tokenVars
    /\ UNCHANGED fileVars

(* ----------------------------- getObjectMeta --------------------------- *)
\* what cacheService.get('attachment:upload:<token>') returns: nothing, or the
\* {mimetype, hash, size} the upload endpoint stored for the token
NoUploadCache == [present |-> FALSE, mimetype |-> undefined, hash |-> "", size |-> 0]
UploadCaches ==
    {NoUploadCache} \cup
    [present : {TRUE}, mimetype : OptContentType, hash : {"sha256"}, size : {1}]

\* what sharp(path).metadata() does: it resolves with the pixel dimensions, or
\* rejects (the file is missing, truncated or no image)
FileMates ==
    {[ok |-> FALSE, width |-> NoNumber, height |-> NoNumber],
     [ok |-> TRUE, width |-> Num(2), height |-> Num(1)]}

\* mimetype?.startsWith('image/')
startsWithImage(mimetype) == mimetype \in {"image/png"}

NoMeta ==
    [hash |-> "", mimetype |-> undefined, size |-> 0, url |-> NoUrl,
     width |-> NoNumber, height |-> NoNumber]
NoObjectCall ==
    [at |-> 0, uploadCache |-> NoUploadCache, info |-> [ok |-> FALSE, width |-> NoNumber,
                                                        height |-> NoNumber],
     res |-> "none", meta |-> NoMeta]

\* the outcome of getObjectMeta: resolved, 'Invalid token: <token>' thrown, or
\* the rejection of getFileMate, which line 202 awaits with no handler
getObjectMetaResult(uploadCache, info) ==
    IF ~uploadCache.present THEN "InvalidToken"
    ELSE IF ~startsWithImage(uploadCache.mimetype) THEN "ok"
    ELSE IF info.ok THEN "ok"
    ELSE "MetadataError"

\* getObjectMeta(bucket, path, token); uploadCache is what the cache returns
\* for the token, info what sharp does with the stored file
getObjectMeta(bucket, path, uploadCache, info) ==
    \E u \in getUrl(bucket, path,
                    [expiresDate |-> -1,
                     respHeaders |-> [given |-> TRUE, contentType |-> uploadCache.mimetype,
                                      contentDisposition |-> undefined]]) :
        LET res == getObjectMetaResult(uploadCache, info)
            meta == [hash |-> uploadCache.hash, mimetype |-> uploadCache.mimetype,
                     size |-> uploadCache.size, url |-> u,
                     width |-> NoNumber, height |-> NoNumber]
        IN  /\ ocall' = [at |-> now, uploadCache |-> uploadCache, info |-> info,
                         res |-> res,
                         meta |-> IF res # "ok" THEN NoMeta
                                  ELSE IF startsWithImage(uploadCache.mimetype)
                                       THEN [meta EXCEPT !.width = info.width,
                                                         !.height = info.height]
                                  ELSE meta]
            /\ UNCHANGED <<now, url, rcall, gcall>>
            /\ UNCHANGED tokenVars
            /\ UNCHANGED fileVars

(* ----------------------------- specification --------------------------- *)
Init ==
    /\ now = 1
    /\ cache = [t \in TokenPool |-> NoEntry]
    /\ issued = {}
    /\ presigns = [t \in TokenPool |-> NoPresign]
    /\ vcall = [token |-> "", size |-> 0, mimetype |-> undefined, res |-> "none", flip |-> 0]
    /\ okCount = [t \in TokenPool |-> 0]
    /\ failed = {}
    /\ dead = [t \in TokenPool |-> 0]
    /\ validatedPaths = {}
    /\ fs = [p \in AllPaths |-> NoFile]
    /\ writer = [n \in NamePool |-> NoWriter]
    /\ call = NoCall
    /\ returned = {}
    /\ copied = [p \in StoragePaths |-> "none"]
    /\ url = NoUrl
    /\ rcall = [token |-> NoToken, at |-> 0, res |-> "none",
                respHeaders |-> NoPayload.respHeaders]
    /\ gcall = [bucket |-> "", path |-> "", expiresIn |-> NoNumber,
                respHeaders |-> NoPayload.respHeaders, at |-> 0]
    /\ ocall = NoObjectCall

\* the random strings drawn are those of one upload: its token, its temporary name
OneUpload == issued' \subseteq Tokens \cup TmpNames

\* the upload-token protocol of one upload: every presign request, every file,
\* the clock
NextToken ==
    \/ Tick
    \/ \E t \in Tokens : CacheEvict(t)
    \/ \E ct \in PresignContentTypes, cl \in OptLength, e \in OptExpiresIn :
           presigned("d1", ct, cl, undefined, e) /\ OneUpload
    \/ \E t \in Tokens, f \in Files : validateToken(t, f)

\* the file operations of one upload, with a client that presigns and validates it
NextUpload ==
    \/ presigned("d1", "image/png", Num(1), undefined, NoNumber) /\ OneUpload
    \/ \E t \in Tokens, f \in returned : validateToken(t, f)
    \/ \E req \in Requests : saveTemporaryFile(req) /\ OneUpload
    \/ reqData
    \/ reqEnd
    \/ reqError
    \/ reqClose
    \/ \E n \in TmpNames : fileStreamError(n)
    \/ \E n \in TmpNames : WriterOpen(n)
    \/ \E n \in TmpNames : WriterFlush(n)
    \/ \E n \in TmpNames : WriterFinish(n)
    \/ \E p \in TempPaths, b \in Buckets, o \in ObjectPaths : save(p, join(b, o))
    \/ \E p \in TempPaths, b \in Buckets, o \in ObjectPaths : uploadFileWidthPath(b, o, p)
    \/ \E b \in Buckets, o \in ObjectPaths, src \in Sources :
           uploadFile(b, o, src) /\ OneUpload
    \/ pipeData
    \/ streamEnd
    \/ streamError
    \/ streamClose
    \/ \E n \in TmpNames : writerError(n)
    \/ hashStep
    \/ saveCopy
    \/ saveRemove

\* the read tokens: preview URLs are issued, their tokens verified as issued or
\* after tampering
NextRead ==
    \/ Tick
    \/ \E b \in Buckets, o \in ObjectPaths, e \in OptPreviewExpiresIn, h \in RespHeaders :
           getPreviewUrl(b, o, e, h)
    \/ url # NoUrl /\ verifyReadToken(url.token)
    \/ url # NoUrl /\ verifyReadToken(tampered(url.token))

\* two uploads in flight at the same time: each is presigned, for any dir and
\* any declared hash, and sends its bytes to saveTemporaryFile
PathRequests == {[chunks |-> <<"x">>, contentType |-> "image/png"]}
NextPaths ==
    \/ \E d \in Dirs, h \in Hashes : presigned(d, "image/png", Num(1), h, NoNumber)
    \/ \E req \in PathRequests : saveTemporaryFile(req)
    \/ reqData
    \/ reqEnd
    \/ \E n \in NamePool : WriterOpen(n)
    \/ \E n \in NamePool : WriterFlush(n)
    \/ \E n \in NamePool : WriterFinish(n)

\* the object metadata: getObjectMeta is called for every cache entry and every
\* outcome of the image probe, and the token of the URL it returned is verified
NextMeta ==
    \/ Tick
    \/ \E b \in Buckets, o \in ObjectPaths, c \in UploadCaches, i \in FileMates :
           getObjectMeta(b, o, c, i)
    \/ ocall.res = "ok" /\ verifyReadToken(ocall.meta.url.token)
    \/ ocall.res = "ok" /\ verifyReadToken(tampered(ocall.meta.url.token))

Next == NextToken \/ NextUpload \/ NextRead \/ NextMeta \/ NextPaths

Spec == Init /\ [][Next]_vars
SpecToken == Init /\ [][NextToken]_vars
SpecUpload == Init /\ [][NextUpload]_vars
SpecRead == Init /\ [][NextRead]_vars
SpecMeta == Init /\ [][NextMeta]_vars
SpecPaths == Init /\ [][NextPaths]_vars

\* what Node's event loop guarantees: a pending open, write or close of a write
\* stream completes, and an awaited getHash, copy or remove returns.  Nothing
\* obliges a client to send, end, abort or start anything.
Fairness ==
    /\ \A n \in TmpNames :
           WF_vars(WriterOpen(n)) /\ WF_vars(WriterFlush(n)) /\ WF_vars(WriterFinish(n))
    /\ WF_vars(hashStep)
    /\ WF_vars(saveCopy)
    /\ WF_vars(saveRemove)
SpecUploadFair == SpecUpload /\ Fairness

(* ================================ claims ================================ *)
\* a step that is a validateToken call
ValidateStep == vcall'.flip # vcall.flip
\* the cache entry a validateToken step reads
ReadEntry == cache[vcall'.token]
\* the token of the step is cached and its expiresDate has not passed
LiveStep == ValidateStep /\ ReadEntry.present /\ now <= ReadEntry.value.expiresDate

\* C1 (as stated): a file exists under the storage directory only if
\* validateToken succeeded for that upload before its bytes were copied there.
C1_StoredOnlyAfterValidation ==
    \A p \in StoragePaths : fs[p].exists => copied[p] = "validated"

\* C1 (amended): a file appears or changes under the storage directory only by
\* save's copy of an existing temporary file, whose bytes it then holds; the
\* copy is made whether or not validateToken succeeded for that file.
C1_StoredOnlyBySaveCopy ==
    [][/\ \A p \in StoragePaths :
            fs'[p] # fs[p] =>
                /\ call.pc = "copy" /\ p = StoragePath(call.rename)
                /\ fs[call.filePath].exists
       /\ (call.pc = "copy" /\ call'.pc = "remove") =>
                fs'[StoragePath(call.rename)] = fs[call.filePath]]_vars

\* C1 witness: an upload call has returned, its bytes are in the storage
\* directory, and no validateToken call has succeeded for its file
C1_UnvalidatedStored ==
    /\ call.pc = "done" /\ call.op \in {"save", "uploadFile", "uploadFileWidthPath"}
    /\ fs[StoragePath(call.rename)].exists
    /\ copied[StoragePath(call.rename)] = "unvalidated"
    /\ validatedPaths = {}

\* C2: a validateToken call that reads a cache entry whose expiresDate is less
\* than the current time fails with TokenExpired.
C2_ExpiredEntryFailsTokenExpired ==
    [][(ValidateStep /\ ReadEntry.present /\ now > ReadEntry.value.expiresDate)
          => vcall'.res = "TokenExpired"]_vars

\* C2 witness: the last call failed with TokenExpired and the cache still holds
\* the expired entry
C2_ExpiredWhileCached ==
    /\ vcall.res = "TokenExpired"
    /\ cache[vcall.token].present
    /\ now > cache[vcall.token].value.expiresDate

\* C3: validateToken succeeds only for a token presigned has returned, and only
\* while the time is not past the presign time plus expiresIn (the end of the
\* entry's TTL).
C3_SuccessOnlyIssuedAndUnexpired ==
    [][(ValidateStep /\ vcall'.res = "ok")
          => /\ vcall'.token \in issued
             /\ ReadEntry.present
             /\ now <= ReadEntry.ttlEnd]_vars

\* C3 witness: a call succeeded in the last second of the token's life
C3_SuccessAtExpiry ==
    /\ vcall.res = "ok"
    /\ vcall.token \in issued
    /\ cache[vcall.token].present
    /\ now = cache[vcall.token].ttlEnd

\* C4 (as stated): for a live token presigned with a contentLength that is a
\* number, a file of another size fails with SizeMismatch, and the call moves
\* no bytes.
C4_OtherSizeFailsSizeMismatch ==
    [][(/\ LiveStep
        /\ ReadEntry.value.contentLength # NoNumber
        /\ ReadEntry.value.contentLength # Num(vcall'.size))
          => vcall'.res = "SizeMismatch" /\ fs' = fs]_vars

\* C5 (as stated): for a live token whose size check passes, the call fails
\* with TypeMismatch when the cached contentType is present and differs from
\* the uploaded mimetype (declared or not), and not when it is absent.
C5_TypeMismatchOnCachedType ==
    [][(/\ LiveStep
        /\ ~(/\ TruthyNumber(ReadEntry.value.contentLength)
             /\ ReadEntry.value.contentLength # Num(vcall'.size)))
          => /\ (/\ ReadEntry.value.contentType # undefined
                 /\ ReadEntry.value.contentType # vcall'.mimetype)
                    => vcall'.res = "TypeMismatch"
             /\ ReadEntry.value.contentType = undefined
                    => vcall'.res # "TypeMismatch"]_vars

\* C6 (as stated): verifyReadToken on a token that decrypts and whose
\* expiresDate is positive and earlier than the time of the call fails with
\* TokenExpired, not InvalidToken.
C6_ExpiredReadTokenFailsTokenExpired ==
    (/\ rcall.res # "none"
     /\ rcall.token.valid
     /\ rcall.token.payload.expiresDate > 0
     /\ rcall.at > rcall.token.payload.expiresDate)
        => rcall.res = "TokenExpired"

\* C7 (as stated): at most one validateToken call succeeds for a token.
C7_AtMostOneSuccess ==
    \A t \in Tokens : okCount[t] <= 1

\* C7 (amended): validateToken leaves the cache as it is, and a call that
\* repeats a successful one (same token, size and mimetype) succeeds again
\* while the entry is cached and unexpired: the token is not consumed.
C7_TokenNotConsumed ==
    [][ValidateStep
          => /\ cache' = cache
             /\ (/\ LiveStep
                 /\ vcall.res = "ok"
                 /\ vcall'.token = vcall.token
                 /\ vcall'.size = vcall.size
                 /\ vcall'.mimetype = vcall.mimetype)
                    => vcall'.res = "ok"]_vars

\* C7 witness: a second validateToken call has succeeded for the same token
C7_SecondSuccess ==
    \E t \in Tokens : okCount[t] = 2 /\ vcall.token = t /\ vcall.res = "ok"

\* C8 (as stated): once a validateToken call has failed for a token presigned
\* returned, no later call with that token succeeds.
C8_NoSuccessAfterFailure ==
    [][(ValidateStep /\ vcall'.token \in failed) => vcall'.res # "ok"]_vars

\* C8 (amended): once a call has failed on expiry (TokenExpired, or
\* InvalidToken for a token presigned had returned), no later call with that
\* token succeeds.
C8_NoSuccessAfterExpiry ==
    [][(ValidateStep /\ dead[vcall'.token] >= 1) => vcall'.res # "ok"]_vars

\* C8 witness: a call was made, and failed, for a token that an earlier call
\* had found expired
C8_CallAfterExpiry ==
    \E t \in Tokens : dead[t] = 2 /\ vcall.token = t /\ vcall.res # "ok"

\* C9 (as stated): when uploadFile or uploadFileWidthPath has returned, the
\* returned hash is the hash of the bytes at the final storage path.
C9_ReturnedHashIsStoredHash ==
    (call.pc = "done" /\ call.op \in {"uploadFile", "uploadFileWidthPath"})
        => /\ fs[StoragePath(call.rename)].exists
           /\ call.hash = getHash(fs, StoragePath(call.rename))

\* C10 (as stated): when the stream given to uploadFile emits 'error' before
\* 'end', the temporary file of the call does not exist once the error handler
\* has run.
C10_StreamErrorRemovesTempFile ==
    [][(call.op = "uploadFile" /\ call.pc = "stream" /\ call'.pc = "failed")
          => ~fs'[call.filePath].exists]_vars

\* every event of the write stream on a temporary name has run: its open has
\* completed or failed and nothing is queued
WriterQuiet(name) == writer[name].state # "opening" /\ writer[name].buf = <<>>

\* C11 (as stated): when the request or the write stream of a saveTemporaryFile
\* call has emitted 'error', the promise is rejected and, once every pending
\* event of the write stream has run, no file is at the temporary path.
C11_ErrorLeavesNoTempFile ==
    (/\ call.op = "saveTemporaryFile"
     /\ call.res \in {"request error", "write error"}
     /\ WriterQuiet(NameOf(call.filePath)))
        => call.pc = "failed" /\ ~fs[call.filePath].exists

\* C12 (as stated): when the request of a saveTemporaryFile call closes before
\* it has emitted 'end', with no 'error' event, the temporary file of the call
\* is eventually deleted.
C12_CloseDeletesTempFile ==
    \A n \in TmpNames :
        (call.op = "saveTemporaryFile" /\ call.pc = "hung" /\ call.filePath = TempPath(n))
            ~> ~fs[TempPath(n)].exists

\* C13 (as stated): in both stream write paths the bytes taken from the source
\* and not yet flushed to the temporary file never exceed a fixed bound, the
\* write stream's highWaterMark, whatever the size of the upload.
C13_QueuedBytesBounded ==
    \A n \in TmpNames : Len(writer[n].buf) <= highWaterMark

\* C14 (as stated): getHash and save's copy run on a temporary file only after
\* every byte accepted from the source is in it: the file was written whole by
\* writeFile, or its write stream has finished.
C14_HashAndCopyAfterFlush ==
    [][(\/ call.pc = "hash" /\ call'.pc # "hash"
        \/ call.pc = "copy" /\ call'.pc # "copy")
          => writer[NameOf(call.filePath)].state \in {"none", "closed"}]_vars

C16_IOFaultRemovesTempFile ==
    [][(/\ call' # call
        /\ call'.op \in {"uploadFile", "uploadFileWidthPath"}
        /\ call'.pc = "failed"
        /\ call'.res = "EIO")
          => ~fs'[call'.filePath].exists]_vars

\* C17 (as stated): a getObjectMeta call that finds the upload's cache entry
\* with an image mimetype, and whose getFileMate fails, still returns hash,
\* mimetype, size and url; only width and height are absent.
C17_ProbeFailureStillReturnsMeta ==
    (/\ ocall.res # "none"
     /\ ocall.uploadCache.present
     /\ startsWithImage(ocall.uploadCache.mimetype)
     /\ ~ocall.info.ok)
        => /\ ocall.res = "ok"
           /\ ocall.meta.hash = ocall.uploadCache.hash
           /\ ocall.meta.mimetype = ocall.uploadCache.mimetype
           /\ ocall.meta.size = ocall.uploadCache.size
           /\ ocall.meta.url # NoUrl
           /\ ocall.meta.width = NoNumber /\ ocall.meta.height = NoNumber

\* the expiresIn of a getPreviewUrl call: the argument, or the configured default
ExpiresInOf(expiresInParam) ==
    IF expiresInParam = NoNumber THEN urlExpireIn ELSE CHOOSE n \in expiresInParam : TRUE

C19_MetaTokenNeverExpires ==
    [][/\ (ocall' # ocall /\ ocall'.res = "ok")
            => /\ ocall'.meta.url.token.valid
               /\ ocall'.meta.url.token.payload.expiresDate = -1
               /\ ocall'.meta.url.token.payload.respHeaders.contentType
                      = ocall'.uploadCache.mimetype
       /\ (/\ rcall' # rcall
           /\ ocall.res = "ok"
           /\ rcall'.token = ocall.meta.url.token)
            => /\ rcall'.res = "ok"
               /\ rcall'.respHeaders.contentType = ocall.uploadCache.mimetype]_vars

\* C19 witness: the token getObjectMeta issued for an object with a mimetype
\* was accepted later than a preview URL issued at the same time would live
C19_AcceptedLongAfter ==
    /\ ocall.res = "ok"
    /\ ocall.uploadCache.mimetype # undefined
    /\ rcall.res = "ok"
    /\ rcall.token = ocall.meta.url.token
    /\ rcall.at > ocall.at + urlExpireIn
    /\ rcall.respHeaders.contentType = ocall.uploadCache.mimetype

\* two different tokens that presigned has returned: two uploads in flight
InFlight(t1, t2) == t1 # t2 /\ t1 \in issued' /\ t2 \in issued'
\* the final storage path an upload is copied to: save's newFilePath for the
\* path presigned returned
FinalPath(b, t) == StoragePath(join(b, presigns'[t].path))
\* a step that creates the write stream of a new temporary file
NewStream == call.pc # "stream" /\ call'.pc = "stream"
\* the temporary path of the new stream is in use by no file and no stream
FreshTempPath ==
    /\ ~fs[call'.filePath].exists
    /\ writer[NameOf(call'.filePath)].state = "none"

WriterErrorStep(name) == writer[name].state # "errored" /\ writer'[name].state = "errored"

\* C21 (as stated): once saveTemporaryFile has resolved with a path, no listener
\* of that call deletes the file at the path: an 'error' event after 'end' (in
\* the model the write stream's, the request being finished) leaves the file
\* handed to the caller in place.
C21_NoDeleteAfterResolve ==
    [][\A f \in returned :
          (fs[f.path].exists /\ WriterErrorStep(NameOf(f.path)))
             => fs'[f.path].exists]_vars

\* the call in flight is the saveTemporaryFile or uploadFile call on a temporary
\* name, at one of the given positions
CallAt(op, name, positions) ==
    call.op = op /\ call.filePath = TempPath(name) /\ call.pc \in positions

\* C22 (as stated): every saveTemporaryFile call and every uploadFile call
\* eventually settles, however its stream terminated ('end', 'error', 'close'
\* without 'end', or an error of the write stream): once the call is past the
\* reading of its stream, its promise is eventually resolved or rejected.
C22_EveryCallSettles ==
    \A op \in {"saveTemporaryFile", "uploadFile"}, n \in TmpNames :
        CallAt(op, n, {"hung", "hash", "copy", "remove", "done", "failed"})
            ~> CallAt(op, n, Settled)
====
